---- MODULE Spec2Model ----
(***************************************************************************)
(* Model of rust/scx_utils/src/build_helpers.rs: the four build helpers    *)
(* install_bpf_h, vmlinux_h_version, bindgen_bpf_intf and gen_bpf_skel,    *)
(* run by one single-threaded build script process.                       *)
(*                                                                         *)
(* Strings whose characters matter (link targets, file names) are          *)
(* sequences of one-character strings; a path is a sequence of such        *)
(* components.                                                             *)
(***************************************************************************)
EXTENDS Integers, Sequences, FiniteSets, TLC

VARIABLES
    archive,   \* BPF_H_TAR: the embedded archive, a sequence of entries
    env,       \* the environment variables that are set
    srcfs,     \* the source tree the build runs in
    dest,      \* the destination tree of install_bpf_h
    outdir,    \* the files under $OUT_DIR
    pc,        \* where the process is: idle, inside a helper, or aborted
    args,      \* the arguments of the helper in progress / last called
    idx,       \* vmlinux_h_version: position of the archive reader (1-based)
    emitted,   \* cargo directives printed since the current helper was entered
    invoked,   \* external tools run since the current helper was entered, and how they ended
    written,   \* files under $OUT_DIR written since the current helper was entered
    ret,       \* how the last helper ended
    lastVer,   \* the pair the latest completed vmlinux_h_version returned
    prevVer    \* the pair the completed vmlinux_h_version before that returned

vars == <<archive, env, srcfs, dest, outdir, pc, args, idx, emitted, invoked,
          written, ret, lastVer, prevVer>>

----------------------------------------------------------------------------
(* Bounds of the model *)

\* longest archive (number of entries) drawn in Init
MaxEntries == 3
\* longest explicit dependency list passed to gen_bpf_skel
MaxDeps == 2

----------------------------------------------------------------------------
(* Characters and strings *)

Digits == {"0", "1", "2", "3", "4", "5", "6", "7", "8", "9"}
NonZeroDigits == Digits \ {"0"}
LowerAlnum == Digits \cup {"a", "b", "c", "d", "e", "f", "g", "h", "i", "j", "k",
                            "l", "m", "n", "o", "p", "q", "r", "s", "t", "u", "v",
                            "w", "x", "y", "z"}

\* s[a..b] as a sequence; empty when b < a
Slice(s, a, b) == [k \in 1..(b - a + 1) |-> s[a + k - 1]]

\* s has the literal lit at position p
HasAt(s, p, lit) ==
    /\ p >= 1
    /\ p + Len(lit) - 1 <= Len(s)
    /\ \A k \in 1..Len(lit) : s[p + k - 1] = lit[k]

\* the literal pieces of the template "vmlinux-v{String}-g{String}.h" (line 38)
TplPrefix == <<"v", "m", "l", "i", "n", "u", "x", "-", "v">>
TplMiddle == <<"-", "g">>
TplSuffix == <<".", "h">>

\* "vmlinux" and "vmlinux.h", the components of the sentinel path (line 27)
VmlinuxDir == <<"v", "m", "l", "i", "n", "u", "x">>
VmlinuxH == <<"v", "m", "l", "i", "n", "u", "x", ".", "h">>
SentinelPath == <<VmlinuxDir, VmlinuxH>>

----------------------------------------------------------------------------
(* sscanf!(name, "vmlinux-v{String}-g{String}.h"), line 38 *)

Min(S) == CHOOSE i \in S : \A j \in S : i <= j

\* The positions at which the first {String} may end.  sscanf anchors the
\* template at both ends of the input and {String} is the regex ".+?": one
\* or more characters.
GroupEnds(name) ==
    { i \in (Len(TplPrefix) + 1)..Len(name) :
        /\ HasAt(name, 1, TplPrefix)
        /\ HasAt(name, i + 1, TplMiddle)
        /\ i + Len(TplMiddle) + 1 <= Len(name) - Len(TplSuffix)
        /\ HasAt(name, Len(name) - Len(TplSuffix) + 1, TplSuffix) }

NoPair == [ok |-> FALSE, ver |-> <<>>, hash |-> <<>>]

\* the template read as "vmlinux-{String}-g{String}.h": the version keeps
\* the "v"
SscanfKeepsV(name) ==
    IF GroupEnds(name) = {} THEN NoPair
    ELSE LET i == Min(GroupEnds(name))
         IN  [ok   |-> TRUE,
              ver  |-> Slice(name, Len(TplPrefix), i),
              hash |-> Slice(name, i + Len(TplMiddle) + 1,
                             Len(name) - Len(TplSuffix))]

\* ".+?" is lazy: the first group is the shortest that lets the rest match
Sscanf(name) ==
    IF GroupEnds(name) = {} THEN NoPair
    ELSE LET i == Min(GroupEnds(name))
         IN  [ok   |-> TRUE,
              ver  |-> Slice(name, Len(TplPrefix) + 1, i),
              hash |-> Slice(name, i + Len(TplMiddle) + 1,
                             Len(name) - Len(TplSuffix))]

----------------------------------------------------------------------------
(* The regular expressions asserted by tests::test_vmlinux_h_version *)

\* number of characters of the hash, {12} in line 145
HashLen == 12

\* ^[1-9][0-9]*\.[1-9][0-9]*(\.[1-9][0-9]*)?$  (line 141)
VersionRe(s) ==
    LET dots == { i \in 1..Len(s) : s[i] = "." }
    IN  /\ Len(s) >= 1
        /\ s[1] \in NonZeroDigits
        /\ \A i \in 1..Len(s) : s[i] \in Digits \cup {"."}
        /\ Cardinality(dots) \in {1, 2}
        /\ \A i \in dots : i < Len(s) /\ s[i + 1] \in NonZeroDigits

\* ^[0-9a-z]{12}$  (line 145)
HashRe(s) ==
    /\ Len(s) = HashLen
    /\ \A i \in 1..Len(s) : s[i] \in LowerAlnum

----------------------------------------------------------------------------
(* The embedded archive BPF_H_TAR (line 14) *)

\* first line of the kernel header, as tests::test_install_bpf_h reads it
IfndefLine == "#ifndef __VMLINUX_H__"
HeaderContent == <<IfndefLine, "#define __VMLINUX_H__">>
StaleContent == <<"/* stale */">>

\* segments the link targets of the model are put together from
VerSegs == { <<"6", ".", "1", "2">>, <<"0", ".", "x">>,
             <<"1", "-", "g", "2">>, <<>> }
HashSegs == { <<"0", "1", "2", "3", "4", "5", "6", "7", "8", "9", "a", "b">>,
              <<"A", "B">>, <<>> }
Prefixes == { TplPrefix, <<"v", "m", "l", "i", "n", "u", "x", "-">> }
AllTargets ==
    { p \o v \o TplMiddle \o h \o TplSuffix :
        p \in Prefixes, v \in VerSegs, h \in HashSegs }

\* vmlinux-v6.12-g0123456789ab.h, the form of the shipped link target
TGood == TplPrefix \o <<"6", ".", "1", "2">> \o TplMiddle
         \o <<"0", "1", "2", "3", "4", "5", "6", "7", "8", "9", "a", "b">>
         \o TplSuffix
\* vmlinux-v0.x-gAB.h: fits the template, not the regular expressions
TOdd == TplPrefix \o <<"0", ".", "x">> \o TplMiddle \o <<"A", "B">> \o TplSuffix
\* vmlinux-6.12-gAB.h: does not fit the template
TBad == <<"v", "m", "l", "i", "n", "u", "x", "-">> \o <<"6", ".", "1", "2">>
        \o TplMiddle \o <<"A", "B">> \o TplSuffix

LinkEntry(path, target) ==
    [bad |-> FALSE, path |-> path, islink |-> TRUE, link |-> target,
     content |-> <<>>]
FileEntry(path, content) ==
    [bad |-> FALSE, path |-> path, islink |-> FALSE, link |-> <<>>,
     content |-> content]
\* a record the archive reader cannot decode
BadEntry ==
    [bad |-> TRUE, path |-> <<>>, islink |-> FALSE, link |-> <<>>,
     content |-> <<>>]

HeaderPath == <<VmlinuxDir, TGood>>

CoreEntries ==
    { LinkEntry(SentinelPath, TGood), LinkEntry(SentinelPath, TOdd),
      LinkEntry(SentinelPath, TBad), FileEntry(SentinelPath, HeaderContent),
      FileEntry(HeaderPath, HeaderContent), BadEntry }

SeqsUpTo(n, S) == UNION { [1..k -> S] : k \in 0..n }

\* the archive as build.rs is expected to ship it
ShippedArchive ==
    << FileEntry(HeaderPath, HeaderContent), LinkEntry(SentinelPath, TGood) >>

Archives ==
    SeqsUpTo(MaxEntries, CoreEntries)
    \cup { <<LinkEntry(SentinelPath, t)>> : t \in AllTargets }

\* index of the first entry stored at the sentinel path, 0 when there is none
FirstSentinel(ar) ==
    LET S == { i \in 1..Len(ar) : ~ar[i].bad /\ ar[i].path = SentinelPath }
    IN  IF S = {} THEN 0 ELSE Min(S)
\* index of the first undecodable record, 0 when there is none
FirstBad(ar) ==
    LET S == { i \in 1..Len(ar) : ar[i].bad }
    IN  IF S = {} THEN 0 ELSE Min(S)

----------------------------------------------------------------------------
(* The process *)

NoArgs == [op |-> "none", name |-> <<>>, src |-> <<>>, hasdeps |-> FALSE,
           deps |-> <<>>]
NoVer == [some |-> FALSE, ver |-> <<>>, hash |-> <<>>]
NoRet == [op |-> "none", kind |-> "none", site |-> "", ver |-> <<>>,
          hash |-> <<>>]

\* a helper returned normally (kind "ok"), returned Err (kind "err") or
\* returned a value (kind "ret")
Returned(op, kind) ==
    [op |-> op, kind |-> kind, site |-> "", ver |-> <<>>, hash |-> <<>>]
\* unwrap / expect / panic!: the process is gone
Panicked(op, site) ==
    [op |-> op, kind |-> "panic", site |-> site, ver |-> <<>>, hash |-> <<>>]

\* entering a helper that prints `out` before anything else: nothing run
\* and nothing written yet
Enter(a, out) ==
    /\ pc = "idle"
    /\ args' = a
    /\ emitted' = out
    /\ invoked' = {}
    /\ written' = {}

----------------------------------------------------------------------------
(* install_bpf_h, lines 16-20 *)

NoNode == [kind |-> "none", link |-> <<>>, content |-> <<>>]
FileNode(content) == [kind |-> "file", link |-> <<>>, content |-> content]
LinkNode(target) == [kind |-> "link", link |-> target, content |-> <<>>]

DestPaths == { SentinelPath, HeaderPath }
EmptyTree == [p \in DestPaths |-> NoNode]
StaleTree == [p \in DestPaths |->
                 IF p = SentinelPath THEN FileNode(StaleContent) ELSE NoNode]

NodeOf(e) == IF e.islink THEN LinkNode(e.link) ELSE FileNode(e.content)

\* ar.unpack(dest), line 18: the entries are unpacked in stored order, each
\* replacing what is at its path; the first record that cannot be decoded,
\* or the first failing write (entry number failAt), ends the unpacking with
\* an error and leaves what was unpacked before it.
RECURSIVE UnpackFrom(_, _, _, _)
UnpackFrom(fs, ar, k, failAt) ==
    IF k > Len(ar) THEN [ok |-> TRUE, fs |-> fs]
    ELSE IF ar[k].bad \/ failAt = k THEN [ok |-> FALSE, fs |-> fs]
    ELSE UnpackFrom([fs EXCEPT ![ar[k].path] = NodeOf(ar[k])], ar, k + 1, failAt)

\* an unpacking that leaves alone a path the destination already holds
RECURSIVE UnpackKeepFrom(_, _, _, _)
UnpackKeepFrom(fs, ar, k, failAt) ==
    IF k > Len(ar) THEN [ok |-> TRUE, fs |-> fs]
    ELSE IF ar[k].bad \/ failAt = k THEN [ok |-> FALSE, fs |-> fs]
    ELSE IF fs[ar[k].path].kind # "none"
         THEN UnpackKeepFrom(fs, ar, k + 1, failAt)
    ELSE UnpackKeepFrom([fs EXCEPT ![ar[k].path] = NodeOf(ar[k])], ar, k + 1,
                        failAt)
UnpackKeepExisting(fs, ar, failAt) == UnpackKeepFrom(fs, ar, 1, failAt)

Unpack(fs, ar, failAt) == UnpackFrom(fs, ar, 1, failAt)

\* unwrap in the place of `?`
InstallResultUnwrap(ok) == IF ok THEN Returned("install", "ok")
                           ELSE Panicked("install", "unpack")

\* the `?` of line 18: an error of unpack is handed to the caller
InstallResult(ok) == IF ok THEN Returned("install", "ok")
                     ELSE Returned("install", "err")

\* File::open + read: what a reader finds at path p, following one link
\* relative to the directory of p
ReadFile(fs, p) ==
    IF fs[p].kind = "file" THEN [ok |-> TRUE, content |-> fs[p].content]
    ELSE IF fs[p].kind = "link"
            /\ <<p[1], fs[p].link>> \in DOMAIN fs
            /\ fs[<<p[1], fs[p].link>>].kind = "file"
         THEN [ok |-> TRUE, content |-> fs[<<p[1], fs[p].link>>].content]
    ELSE [ok |-> FALSE, content |-> <<>>]

InstallBpfH ==
    \E failAt \in 0..Len(archive) :
        LET r == Unpack(dest, archive, failAt)
        IN  /\ Enter([NoArgs EXCEPT !.op = "install"], <<>>)
            /\ dest' = r.fs
            /\ ret' = InstallResult(r.ok)
            /\ pc' = IF ret'.kind = "panic" THEN "aborted" ELSE "idle"
            /\ UNCHANGED <<archive, env, srcfs, outdir, idx, lastVer, prevVer>>

----------------------------------------------------------------------------
(* vmlinux_h_version, lines 22-42 *)

\* a reader kept between calls, going on from where it stopped
ArchiveResume(old) == old + 1

\* tar::Archive::new(BPF_H_TAR), line 23: a fresh reader, at the first entry,
\* whatever position the reader of an earlier call was left at
ArchiveNew(old) == 1

VersionEnter ==
    /\ Enter([NoArgs EXCEPT !.op = "version"], <<>>)
    /\ idx' = ArchiveNew(idx)
    /\ pc' = "ver_loop"
    /\ UNCHANGED <<archive, env, srcfs, dest, outdir, ret, lastVer, prevVer>>

\* a best-effort parse: what cannot be parsed is returned as it is
SentinelOutcomeBestEffort(e) ==
    IF ~e.islink THEN Panicked("version", "link_name")
    ELSE IF ~Sscanf(e.link).ok
         THEN [op |-> "version", kind |-> "ret", site |-> "",
               ver |-> e.link, hash |-> <<>>]
    ELSE [op |-> "version", kind |-> "ret", site |-> "",
          ver |-> Sscanf(e.link).ver, hash |-> Sscanf(e.link).hash]

\* what the loop body does with the entry at the sentinel path, lines 31-38
SentinelOutcome(e) ==
    IF ~e.islink THEN Panicked("version", "link_name")
    ELSE IF ~Sscanf(e.link).ok THEN Panicked("version", "sscanf")
    ELSE [op |-> "version", kind |-> "ret", site |-> "",
          ver |-> Sscanf(e.link).ver, hash |-> Sscanf(e.link).hash]

\* a loop that goes on to the next entry when the sentinel's link target
\* cannot be used
VersionLoopSkipsUnparsed(ar, i) ==
    IF i > Len(ar) THEN Panicked("version", "not found")
    ELSE IF ar[i].bad THEN Panicked("version", "entry")
    ELSE IF ar[i].path # SentinelPath THEN NoRet
    ELSE IF SentinelOutcome(ar[i]).kind = "panic" THEN NoRet
    ELSE SentinelOutcome(ar[i])

\* one iteration of the for loop of line 25, or the panic! of line 41
\* when the entries are exhausted
VersionLoopOutcome(ar, i) ==
    IF i > Len(ar) THEN Panicked("version", "not found")
    ELSE IF ar[i].bad THEN Panicked("version", "entry")
    ELSE IF ar[i].path # SentinelPath THEN NoRet
    ELSE SentinelOutcome(ar[i])

VersionLoop ==
    /\ pc = "ver_loop"
    /\ LET o == VersionLoopOutcome(archive, idx)
       IN  \/ /\ o.kind = "none"
              /\ idx' = idx + 1
              /\ UNCHANGED <<pc, ret, lastVer, prevVer>>
           \/ /\ o.kind = "panic"
              /\ ret' = o
              /\ pc' = "aborted"
              /\ UNCHANGED <<idx, lastVer, prevVer>>
           \/ /\ o.kind = "ret"
              /\ ret' = o
              /\ pc' = "idle"
              /\ prevVer' = lastVer
              /\ lastVer' = [some |-> TRUE, ver |-> o.ver, hash |-> o.hash]
              /\ UNCHANGED idx
    /\ UNCHANGED <<archive, env, srcfs, dest, outdir, args, emitted, invoked, written>>

----------------------------------------------------------------------------
(* Path strings *)

Slash == "/"

RECURSIVE Join(_)
\* the components joined by "/"
Join(comps) ==
    IF Len(comps) = 0 THEN <<>>
    ELSE IF Len(comps) = 1 THEN comps[1]
    ELSE comps[1] \o <<Slash>> \o Join(Tail(comps))

RECURSIVE SplitFrom(_, _, _, _)
SplitFrom(s, i, cur, acc) ==
    IF i > Len(s) THEN Append(acc, cur)
    ELSE IF s[i] = Slash THEN SplitFrom(s, i + 1, <<>>, Append(acc, cur))
    ELSE SplitFrom(s, i + 1, Append(cur, s[i]), acc)

\* the pieces of s between its "/"
Split(s) == SplitFrom(s, 1, <<>>, <<>>)

Front(q) == SubSeq(q, 1, Len(q) - 1)
NonEmpty(c) == c # <<>>

\* c_path.parent().unwrap().to_string_lossy(), lines 103-104: the path
\* without its last component; "" for a path of one relative component
Parent(s) == Join(Front(Split(s)))

\* the working directory of the build script, the crate's directory
Cwd == << <<"c", "r", "a", "t", "e">> >>
Root == <<>>

\* the directory or file a path string names: absolute when it starts with
\* "/", relative to the working directory otherwise
Resolve(s) ==
    IF Len(s) >= 1 /\ s[1] = Slash THEN SelectSeq(Split(s), NonEmpty)
    ELSE Cwd \o SelectSeq(Split(s), NonEmpty)

----------------------------------------------------------------------------
(* The source tree and the build output directory *)

SrcC == <<"s", "r", "c">>
BpfC == <<"b", "p", "f">>
GenC == <<"g", "e", "n">>
SubC == <<"s", "u", "b">>
MainName == <<"m", "a", "i", "n", ".", "b", "p", "f", ".", "c">>
ProgName == <<"p", "r", "o", "g", ".", "b", "p", "f">>
IntfName == <<"i", "n", "t", "f", ".", "h">>
AName == <<"a", ".", "h">>
BName == <<"b", ".", "c">>
RsName == <<"c", ".", "r", "s">>
IncName == <<"i", "n", "c", ".", "h">>
ZName == <<"z", "z", ".", "h">>

\* "src/bpf/main.bpf.c" and "src/bpf/intf.h", the defaults of lines 45, 76
DefaultMain == Join(<<SrcC, BpfC, MainName>>)
DefaultIntf == Join(<<SrcC, BpfC, IntfName>>)
BareMain == MainName
GenMain == Join(<<GenC, ProgName>>)

File(n) == [name |-> n, kind |-> "file"]
Dir(n) == [name |-> n, kind |-> "dir"]

BpfDir == Cwd \o <<SrcC, BpfC>>
GenDir == Cwd \o <<GenC>>
SubDir == BpfDir \o <<SubC>>
SrcDirs == { Root, Cwd, BpfDir, GenDir, SubDir }

\* every name of the model, in the alphabetical order glob lists a directory
NameOrder == << AName, BName, RsName, IncName, IntfName, MainName, ProgName,
                SubC, ZName >>

RootChoices == { {}, {File(AName)} }
CwdChoices == { {}, {File(MainName), File(BName), File(IntfName)} }
BpfChoices == { {File(MainName), File(IntfName)},
                {File(MainName), File(IntfName), File(AName), File(RsName),
                 Dir(SubC)},
                {File(MainName), Dir(IncName)},
                {File(RsName)} }

Trees ==
    { [d \in SrcDirs |->
         IF d = Root THEN r
         ELSE IF d = Cwd THEN c
         ELSE IF d = BpfDir THEN b
         ELSE IF d = GenDir THEN {File(ProgName)}
         ELSE {File(BName)}] :
      r \in RootChoices, c \in CwdChoices, b \in BpfChoices }

DefaultTree ==
    [d \in SrcDirs |->
        IF d = BpfDir THEN {File(MainName), File(IntfName)}
        ELSE IF d = GenDir THEN {File(ProgName)}
        ELSE IF d = SubDir THEN {File(BName)}
        ELSE {}]

\* the entries of the directory a path string names
Listing(tree, dirString) ==
    IF Resolve(dirString) \in DOMAIN tree THEN tree[Resolve(dirString)] ELSE {}

\* whether a regular file is at the place a path string names
FileExists(tree, s) ==
    /\ Len(Resolve(s)) >= 1
    /\ Front(Resolve(s)) \in DOMAIN tree
    /\ File(Resolve(s)[Len(Resolve(s))]) \in tree[Front(Resolve(s))]

EnvVars == { "BPF_CFLAGS", "BPF_CLANG", "OUT_DIR" }

\* the files a helper may write under $OUT_DIR: <<stem, suffix>>
SkelNames == { "bpf", "sched" }
BindingNames == { "bpf_intf.rs", "intf.rs" }
OutFiles == { <<n, ".bpf.o">> : n \in SkelNames }
            \cup { <<n, "_skel.rs">> : n \in SkelNames }
            \cup { <<n, "">> : n \in BindingNames }

----------------------------------------------------------------------------
(* Option arguments *)

None(zero) == [some |-> FALSE, val |-> zero]
Some(v) == [some |-> TRUE, val |-> v]
UnwrapOr(o, default) == IF o.some THEN o.val ELSE default

\* println!("cargo:rerun-if-changed={}", path), lines 49, 99, 110
RerunIfChanged(path) == [key |-> "cargo:rerun-if-changed", path |-> path]

----------------------------------------------------------------------------
(* bindgen_bpf_intf, lines 44-73 *)

BindgenArgs(bpf_intf_rs, intf_h) ==
    [NoArgs EXCEPT !.op = "bindgen",
                   !.name = UnwrapOr(bpf_intf_rs, "bpf_intf.rs"),
                   !.src = UnwrapOr(intf_h, DefaultIntf)]

\* lines 45-56: the directive for the header is printed, then BPF_CFLAGS is
\* read
BindgenEnter ==
    \E bpf_intf_rs \in {None(""), Some("intf.rs")},
       intf_h \in {None(<<>>), Some(IntfName)} :
        LET a == BindgenArgs(bpf_intf_rs, intf_h)
        IN  /\ Enter(a, <<RerunIfChanged(a.src)>>)
            /\ IF "BPF_CFLAGS" \in env
               THEN pc' = "bg_generate" /\ UNCHANGED ret
               ELSE pc' = "aborted" /\ ret' = Panicked("bindgen", "BPF_CFLAGS")
            /\ UNCHANGED <<archive, env, srcfs, dest, outdir, idx, lastVer,
                           prevVer>>

\* the outcomes generate() (line 64) can have on a header: a header that is
\* missing or does not parse fails; one that parses may still fail on the
\* flags given
GenerateOutcomes(tree, header, intf_h) ==
    IF FileExists(tree, intf_h) /\ header = "good" THEN {TRUE, FALSE}
    ELSE {FALSE}

\* generate() without the expect of line 66
AfterGenerateNoExpect(ok, e) ==
    IF "OUT_DIR" \notin e THEN "OUT_DIR" ELSE "bg_write"

\* lines 64-69: where the helper goes once generate() has answered
AfterGenerate(ok, e) ==
    IF ~ok THEN "generate"
    ELSE IF "OUT_DIR" \notin e THEN "OUT_DIR"
    ELSE "bg_write"

BindgenGenerate ==
    /\ pc = "bg_generate"
    /\ \E ok \in GenerateOutcomes(srcfs.tree, srcfs.header, args.src) :
        LET next == AfterGenerate(ok, env)
        IN  /\ invoked' = invoked \cup {[tool |-> "bindgen", ok |-> ok]}
            \* CargoCallbacks name the header once more while it is parsed
            /\ emitted' = IF ok THEN Append(emitted, RerunIfChanged(args.src))
                          ELSE emitted
            /\ IF next = "bg_write"
               THEN pc' = "bg_write" /\ UNCHANGED ret
               ELSE pc' = "aborted" /\ ret' = Panicked("bindgen", next)
    /\ UNCHANGED <<archive, env, srcfs, dest, outdir, args, idx, written, lastVer,
                   prevVer>>

\* bindings.write_to_file(out_path.join(bpf_intf_rs)), lines 70-72: a failing
\* write leaves the file as it was or cut short
BindgenWrite ==
    /\ pc = "bg_write"
    /\ \/ /\ outdir' = [outdir EXCEPT ![<<args.name, "">>] = "bindings"]
          /\ written' = written \cup {<<args.name, "">>}
          /\ ret' = Returned("bindgen", "ok")
          /\ pc' = "idle"
       \/ /\ \/ UNCHANGED <<outdir, written>>
             \/ /\ outdir' = [outdir EXCEPT ![<<args.name, "">>] = "partial"]
                /\ written' = written \cup {<<args.name, "">>}
          /\ ret' = Panicked("bindgen", "write")
          /\ pc' = "aborted"
    /\ UNCHANGED <<archive, env, srcfs, dest, args, idx, emitted, invoked,
                   lastVer, prevVer>>

----------------------------------------------------------------------------
(* gen_bpf_skel, lines 75-114 *)

DepNames == { AName, ZName }
DepLists == SeqsUpTo(MaxDeps, DepNames)

SkelArgs(skel_name, main_bpf_c, deps) ==
    [NoArgs EXCEPT !.op = "skel",
                   !.name = UnwrapOr(skel_name, "bpf"),
                   !.src = UnwrapOr(main_bpf_c, DefaultMain),
                   !.hasdeps = deps.some,
                   !.deps = deps.val]

\* BPF_CLANG left to the compiler run to find missing
SkelEnvLazyClang(e) ==
    IF "BPF_CFLAGS" \notin e THEN "BPF_CFLAGS"
    ELSE IF "OUT_DIR" \notin e THEN "OUT_DIR"
    ELSE ""

\* lines 79-82: the first environment variable found unset, "" when all
\* three are set
SkelEnv(e) ==
    IF "BPF_CFLAGS" \notin e THEN "BPF_CFLAGS"
    ELSE IF "BPF_CLANG" \notin e THEN "BPF_CLANG"
    ELSE IF "OUT_DIR" \notin e THEN "OUT_DIR"
    ELSE ""

SkelEnter ==
    \E skel_name \in {None(""), Some("sched")},
       main_bpf_c \in {None(<<>>), Some(BareMain), Some(GenMain)},
       deps \in {None(<<>>)} \cup {Some(l) : l \in DepLists} :
        /\ Enter(SkelArgs(skel_name, main_bpf_c, deps), <<>>)
        /\ IF SkelEnv(env) = ""
           THEN pc' = "sk_build" /\ UNCHANGED ret
           ELSE pc' = "aborted" /\ ret' = Panicked("skel", SkelEnv(env))
        /\ UNCHANGED <<archive, env, srcfs, dest, outdir, idx, lastVer, prevVer>>

\* the outcomes build_and_generate (lines 86-92) can have: it succeeds only
\* on a source that exists; it may fail compiling (nothing written) or
\* generating the skeleton (the object is written)
BuildOutcomes(tree, main_bpf_c) ==
    IF FileExists(tree, main_bpf_c) THEN {"ok", "compile", "skeleton"}
    ELSE {"compile"}

SkelBuild ==
    /\ pc = "sk_build"
    /\ \E o \in BuildOutcomes(srcfs.tree, args.src) :
        /\ invoked' = invoked \cup {[tool |-> "clang", ok |-> (o = "ok")]}
        /\ outdir' =
             IF o = "compile" THEN outdir
             ELSE IF o = "skeleton"
                  THEN [outdir EXCEPT ![<<args.name, ".bpf.o">>] = "object"]
             ELSE [outdir EXCEPT ![<<args.name, ".bpf.o">>] = "object",
                                 ![<<args.name, "_skel.rs">>] = "skeleton"]
        /\ written' =
             IF o = "compile" THEN written
             ELSE IF o = "skeleton"
                  THEN written \cup {<<args.name, ".bpf.o">>}
             ELSE written \cup {<<args.name, ".bpf.o">>,
                                <<args.name, "_skel.rs">>}
        /\ IF o = "ok"
           THEN pc' = "sk_deps" /\ UNCHANGED ret
           ELSE pc' = "aborted" /\ ret' = Panicked("skel", "build")
    /\ UNCHANGED <<archive, env, srcfs, dest, args, idx, emitted, lastVer,
                   prevVer>>

\* the pattern "*.[hc]" of line 106 on one file name
MatchesHC(name) ==
    /\ Len(name) >= 2
    /\ name[Len(name) - 1] = "."
    /\ name[Len(name)] \in {"h", "c"}

\* format!("{}/*.[hc]", dir), line 106, up to the file pattern: the
\* directory part of the pattern string
PatternDir(dir) == dir \o <<Slash>>

\* glob(pattern), lines 106-108: the entries of the pattern's directory whose
\* name matches, directories too, in alphabetical order, each as the
\* pattern's directory part followed by the name
Glob(tree, patternDir) ==
    LET names == { e.name : e \in Listing(tree, patternDir) }
        hit(n) == n \in names /\ MatchesHC(n)
        found == SelectSeq(NameOrder, hit)
    IN  [k \in 1..Len(found) |-> patternDir \o found[k]]

\* a dependency step that globs whether or not a list is given
DepsDirectivesAlsoGlob(tree, a) ==
    LET g == Glob(tree, PatternDir(Parent(a.src)))
    IN  (IF a.hasdeps
         THEN [k \in 1..Len(a.deps) |-> RerunIfChanged(a.deps[k])]
         ELSE <<>>)
        \o [k \in 1..Len(g) |-> RerunIfChanged(g[k])]

\* lines 96-113: the directives of the dependency step
DepsDirectives(tree, a) ==
    IF a.hasdeps
    THEN [k \in 1..Len(a.deps) |-> RerunIfChanged(a.deps[k])]
    ELSE LET g == Glob(tree, PatternDir(Parent(a.src)))
         IN  [k \in 1..Len(g) |-> RerunIfChanged(g[k])]

SkelDeps ==
    /\ pc = "sk_deps"
    /\ emitted' = emitted \o DepsDirectives(srcfs.tree, args)
    /\ ret' = Returned("skel", "ok")
    /\ pc' = "idle"
    /\ UNCHANGED <<archive, env, srcfs, dest, outdir, args, idx, invoked, written,
                   lastVer, prevVer>>

----------------------------------------------------------------------------
(* The build script: one helper at a time, until one of them panics *)

AllAbsent == [f \in OutFiles |-> "absent"]
AllStale == [f \in OutFiles |-> "stale"]

InitCommon ==
    /\ pc = "idle"
    /\ args = NoArgs
    /\ idx = 1
    /\ emitted = <<>>
    /\ invoked = {}
    /\ written = {}
    /\ ret = NoRet
    /\ lastVer = NoVer
    /\ prevVer = NoVer

\* any archive, in the usual build environment
InitArchive ==
    /\ archive \in Archives
    /\ env = EnvVars
    /\ srcfs = [tree |-> DefaultTree, header |-> "good"]
    /\ dest \in {EmptyTree, StaleTree}
    /\ outdir = AllAbsent
    /\ InitCommon

\* the shipped archive, in any build environment
InitBuild ==
    /\ archive = ShippedArchive
    /\ env \in SUBSET EnvVars
    /\ srcfs \in [tree : Trees, header : {"good", "bad"}]
    /\ dest = EmptyTree
    /\ outdir \in {AllAbsent, AllStale}
    /\ InitCommon

\* a build script on a few archives and environments
ScriptArchives ==
    { ShippedArchive,
      << LinkEntry(SentinelPath, TGood), LinkEntry(SentinelPath, TOdd) >>,
      << BadEntry >> }

Init ==
    /\ archive \in ScriptArchives
    /\ env \in { EnvVars, {"OUT_DIR"} }
    /\ srcfs = [tree |-> DefaultTree, header |-> "good"]
    /\ dest = EmptyTree
    /\ outdir = AllAbsent
    /\ InitCommon

\* the helpers that read the archive
NextArchive ==
    \/ InstallBpfH
    \/ VersionEnter
    \/ VersionLoop

\* the helpers that run the external tools
NextBuild ==
    \/ BindgenEnter
    \/ BindgenGenerate
    \/ BindgenWrite
    \/ SkelEnter
    \/ SkelBuild
    \/ SkelDeps

Next == NextArchive \/ NextBuild

Spec == Init /\ [][Next]_vars
SpecArchive == InitArchive /\ [][NextArchive]_vars
SpecBuild == InitBuild /\ [][NextBuild]_vars

----------------------------------------------------------------------------
(* Properties *)

\* the helper entered last was op, and it has ended
Done(op) == args.op = op /\ pc \in {"idle", "aborted"}

Range(q) == { q[k] : k \in 1..Len(q) }

\* t is "vmlinux-v" v "-g" h ".h" for some non-empty v and h, the "-g"
\* standing at position j
SplitsAt(t, j) ==
    /\ HasAt(t, 1, TplPrefix)
    /\ j >= Len(TplPrefix) + 2
    /\ HasAt(t, j, TplMiddle)
    /\ j + Len(TplMiddle) <= Len(t) - Len(TplSuffix)
    /\ HasAt(t, Len(t) - Len(TplSuffix) + 1, TplSuffix)

FitsTemplate(t) == \E j \in 1..Len(t) : SplitsAt(t, j)

\* t is "vmlinux-v" v "-g" h ".h" for a v and an h of the Version Tuple form
ShapedTarget(t) ==
    \E j \in 1..Len(t) :
        /\ SplitsAt(t, j)
        /\ VersionRe(Slice(t, Len(TplPrefix) + 1, j - 1))
        /\ HashRe(Slice(t, j + Len(TplMiddle), Len(t) - Len(TplSuffix)))

Assemble(ver, hash) == TplPrefix \o ver \o TplMiddle \o hash \o TplSuffix

\* the first entry stored at the sentinel path (when there is one)
Sentinel == archive[FirstSentinel(archive)]

\* C1, as claimed: whenever vmlinux_h_version returns a pair, the version
\* matches ^[1-9][0-9]*\.[1-9][0-9]*(\.[1-9][0-9]*)?$ and the hash matches
\* ^[0-9a-z]{12}$.
C1_AlwaysVersionTuple ==
    (Done("version") /\ ret.kind = "ret")
        => (VersionRe(ret.ver) /\ HashRe(ret.hash))

\* C1, amended: whenever vmlinux_h_version returns a pair, version and hash
\* are non-empty and the link target of the first sentinel entry is exactly
\* vmlinux-v<version>-g<hash>.h; the pair has the Version Tuple form when
\* that link target is vmlinux-v<V>-g<H>.h for a V and an H of that form.
C1_PairIsTheLinkTarget ==
    (Done("version") /\ ret.kind = "ret")
        => /\ FirstSentinel(archive) # 0
           /\ ret.ver # <<>>
           /\ ret.hash # <<>>
           /\ Assemble(ret.ver, ret.hash) = Sentinel.link
           /\ ShapedTarget(Sentinel.link)
                 => (VersionRe(ret.ver) /\ HashRe(ret.hash))

\* a pair of the Version Tuple form was returned
C1_Witness ==
    /\ Done("version")
    /\ ret.kind = "ret"
    /\ ShapedTarget(Sentinel.link)
    /\ VersionRe(ret.ver)
    /\ HashRe(ret.hash)

\* C7: vmlinux_h_version ends in one of two ways, a returned pair or an
\* abort of the process; it aborts when no entry has the sentinel path and
\* when the sentinel entry's link target does not fit the template; a
\* returned pair is whole, and is returned only for a sentinel entry whose
\* link target fits the template.
C7_PairOrAbort ==
    Done("version")
        => /\ ret.op = "version"
           /\ \/ ret.kind = "ret" /\ pc = "idle"
              \/ ret.kind = "panic" /\ pc = "aborted"
           /\ FirstSentinel(archive) = 0 => ret.kind = "panic"
           /\ (FirstSentinel(archive) # 0
               /\ ~(Sentinel.islink /\ FitsTemplate(Sentinel.link)))
                 => ret.kind = "panic"
           /\ ret.kind = "ret"
                 => /\ FirstSentinel(archive) # 0
                    /\ Sentinel.islink
                    /\ FitsTemplate(Sentinel.link)
                    /\ ret.ver # <<>> /\ ret.hash # <<>>
                    /\ Assemble(ret.ver, ret.hash) = Sentinel.link

\* the sentinel entry was found and its link target did not fit
C7_Witness ==
    /\ Done("version")
    /\ FirstSentinel(archive) # 0
    /\ Sentinel.islink
    /\ ~FitsTemplate(Sentinel.link)
    /\ ret.kind = "panic"
    /\ ret.site = "sscanf"

\* C10: vmlinux_h_version reads the entries in stored order and never reads
\* past the first entry at the sentinel path; once it has reached that entry
\* the call is over, and whether it returned or aborted is decided by that
\* entry's link target alone, whatever is stored after it.
C10_FirstSentinelDecides ==
    /\ (args.op = "version" /\ FirstSentinel(archive) # 0)
          => idx <= FirstSentinel(archive)
    /\ (Done("version") /\ FirstSentinel(archive) # 0
        /\ FirstBad(archive) \notin 1..FirstSentinel(archive))
          => /\ idx = FirstSentinel(archive)
             /\ ret.kind = "ret"
                   <=> (Sentinel.islink /\ FitsTemplate(Sentinel.link))
             /\ ret.kind = "ret"
                   => Assemble(ret.ver, ret.hash) = Sentinel.link

\* the call aborted on a first sentinel entry that cannot be used, with a
\* sentinel entry stored after it whose link target the template fits
C10_Witness ==
    /\ Done("version")
    /\ ret.kind = "panic"
    /\ FirstSentinel(archive) # 0
    /\ ~(Sentinel.islink /\ FitsTemplate(Sentinel.link))
    /\ \E j \in (FirstSentinel(archive) + 1)..Len(archive) :
          /\ archive[j].path = SentinelPath
          /\ archive[j].islink
          /\ FitsTemplate(archive[j].link)

\* C9: any two calls of vmlinux_h_version that return, return the same pair,
\* whatever helpers ran between them; every call starts reading at the first
\* entry and no step changes the archive.
C9_SameResult ==
    /\ [](prevVer.some
            => (prevVer.ver = lastVer.ver /\ prevVer.hash = lastVer.hash))
    /\ [][/\ archive' = archive
          /\ (pc = "idle" /\ pc' = "ver_loop") => idx' = 1]_vars

\* two calls returned, with an install and a build helper run as well
C9_Witness ==
    /\ prevVer.some
    /\ lastVer.some
    /\ dest # EmptyTree
    /\ outdir # AllAbsent

\* C8: a failing install_bpf_h returns an error and the process goes on; a
\* failure of any of the other three helpers aborts the process, and none
\* of them returns an error.
C8_OnlyInstallRecoverable ==
    /\ ret.op = "install" => ret.kind \in {"ok", "err"}
    /\ ret.kind = "err" => ret.op = "install"
    /\ (Done("install") /\ ret.kind = "err") => pc = "idle"
    /\ pc = "aborted"
          => (ret.kind = "panic" /\ ret.op \in {"version", "bindgen", "skel"})
    /\ ret.op \in {"version", "bindgen", "skel"}
          => ret.kind \in {"ok", "ret", "panic"}

\* an install failed part-way and the process is still running
C8_Witness ==
    /\ Done("install")
    /\ ret.kind = "err"
    /\ pc = "idle"
    /\ archive # <<>>

----------------------------------------------------------------------------

\* no path is stored twice in the archive
DistinctPaths(ar) ==
    \A i, j \in 1..Len(ar) : (ar[i].path = ar[j].path) => i = j

\* the entry is the last one stored at its path
LastAtPath(ar, i) ==
    \A j \in (i + 1)..Len(ar) : ar[j].path # ar[i].path

\* C6: after a successful install_bpf_h every path of the archive holds what
\* the archive stores for it (every entry, when no path is stored twice), so
\* that vmlinux/vmlinux.h, a link to a header of the archive, reads as that
\* header, first line "#ifndef __VMLINUX_H__"; a second successful install
\* leaves the tree as the first left it.
C6_InstalledTree ==
    /\ []((Done("install") /\ ret.kind = "ok")
            => /\ \A i \in 1..Len(archive) :
                     LastAtPath(archive, i)
                        => dest[archive[i].path] = NodeOf(archive[i])
               /\ DistinctPaths(archive)
                     => \A i \in 1..Len(archive) :
                           dest[archive[i].path] = NodeOf(archive[i])
               /\ (/\ DistinctPaths(archive)
                   /\ \E i, j \in 1..Len(archive) :
                         /\ archive[i] = LinkEntry(SentinelPath, TGood)
                         /\ archive[j] = FileEntry(HeaderPath, HeaderContent))
                     => /\ ReadFile(dest, SentinelPath).ok
                        /\ ReadFile(dest, SentinelPath).content[1] = IfndefLine)
    /\ [][(/\ Done("install") /\ ret.kind = "ok" /\ pc = "idle"
           /\ args'.op = "install" /\ ret'.kind = "ok")
             => dest' = dest]_vars

\* the shipped archive was installed over a stale tree
C6_Witness ==
    /\ Done("install")
    /\ ret.kind = "ok"
    /\ archive = ShippedArchive
    /\ ReadFile(dest, SentinelPath).content = HeaderContent

----------------------------------------------------------------------------

\* C2: a gen_bpf_skel called with BPF_CFLAGS or BPF_CLANG unset aborts
\* before the compiler is run: nothing is run, written or printed by it.
C2_AbortBeforeCompiler ==
    (args.op = "skel" /\ ("BPF_CFLAGS" \notin env \/ "BPF_CLANG" \notin env))
        => /\ pc = "aborted"
           /\ ret = Panicked("skel", SkelEnv(env))
           /\ invoked = {}
           /\ written = {}
           /\ emitted = <<>>

\* only the compiler path was missing
C2_Witness ==
    /\ args.op = "skel"
    /\ pc = "aborted"
    /\ "BPF_CFLAGS" \in env
    /\ "BPF_CLANG" \notin env
    /\ ret.site = "BPF_CLANG"

\* C3: a successful gen_bpf_skel given a list of paths prints one directive
\* per listed path, as given and in the order of the list, and no other.
C3_ExplicitDeps ==
    (Done("skel") /\ ret.kind = "ok" /\ args.hasdeps)
        => emitted = [k \in 1..Len(args.deps) |->
                         [key |-> "cargo:rerun-if-changed",
                          path |-> args.deps[k]]]

\* two different paths were listed, the first a file that does not exist,
\* in a source directory that holds other .h and .c files
C3_Witness ==
    /\ Done("skel")
    /\ ret.kind = "ok"
    /\ args.hasdeps
    /\ args.deps = <<ZName, AName>>
    /\ args.src = DefaultMain
    /\ File(AName) \in srcfs.tree[BpfDir]

\* the entries of the directory of main_source, directories too, whose name
\* ends in .h or .c
SourceDirMatches(tree, main) ==
    IF Front(Resolve(main)) \in DOMAIN tree
    THEN { Front(Resolve(main)) \o <<e.name>> :
              e \in { x \in tree[Front(Resolve(main))] : MatchesHC(x.name) } }
    ELSE {}

\* C4, as claimed: a successful gen_bpf_skel given no list prints directives
\* for exactly the .h and .c files directly in the directory of main_source,
\* and none when there is no such file.
C4_GlobOfSourceDir ==
    (Done("skel") /\ ret.kind = "ok" /\ ~args.hasdeps)
        => { Resolve(d.path) : d \in Range(emitted) }
              = SourceDirMatches(srcfs.tree, args.src)

\* C5: when generate() fails, bindgen_bpf_intf aborts without having written
\* any file; the write step is entered only after a generate() that
\* succeeded.
C5_NoWriteAfterFailedGenerate ==
    /\ (args.op = "bindgen" /\ [tool |-> "bindgen", ok |-> FALSE] \in invoked)
          => /\ pc = "aborted"
             /\ ret = Panicked("bindgen", "generate")
             /\ written = {}
    /\ pc = "bg_write" => invoked = {[tool |-> "bindgen", ok |-> TRUE]}

\* generation failed on a header that does not parse, and the binding file
\* of an earlier build is still there
C5_Witness ==
    /\ args.op = "bindgen"
    /\ pc = "aborted"
    /\ ret.site = "generate"
    /\ srcfs.header = "bad"
    /\ FileExists(srcfs.tree, args.src)
    /\ outdir[<<args.name, "">>] = "stale"

====
